---------------------------- MODULE Spec2Model ----------------------------
(***************************************************************************)
(* Model of the pedestrian-detection video pipeline:                       *)
(*   src/src/utils.py            calculate_iou, filter_detections_by_iou   *)
(*   src/src/video_processor.py  VideoProcessor                            *)
(*                                                                         *)
(* A detection is the tuple (x1, y1, x2, y2, confidence, class_name) of    *)
(* the code; Python index d[4] is d[5] here.  Confidences are counted in   *)
(* tenths (9 stands for 0.9).  A Python float quotient a / b is kept as    *)
(* the exact fraction <<a, b>>; fractions are compared by cross            *)
(* multiplication.  For the small integers and the thresholds 1/2 and 1/4  *)
(* (both exact binary floats) used here, the float comparison of the code  *)
(* and the exact comparison agree.                                         *)
(***************************************************************************)
EXTENDS Integers, Sequences, FiniteSets

VARIABLES
    \* ---- VideoProcessor and one process_video call ----
    detector,      \* self.detector: which detector the processor was built with
    stats,         \* self.stats
    pc,            \* where process_video is: idle / running / closed / failed
    exc,           \* the exception process_video raised, or "none"
    cap,           \* the cv2.VideoCapture handle
    out,           \* the cv2.VideoWriter handle
    display,       \* argument display
    total_frames,  \* local total_frames (CAP_PROP_FRAME_COUNT, as claimed)
    frame_count,   \* local frame_count
    annotated,     \* what _draw_detections drew on the last frame
    sink,          \* number of frames the output file holds
    recorded,      \* detections passed to _update_stats during this call
    runs,          \* process_video calls started on this instance
    ret,           \* what the last get_statistics call returned or raised
    key,           \* what the last cv2.waitKey of this call returned
    polls,         \* cv2.waitKey calls made during this call
    \* ---- a call of filter_detections_by_iou ----
    fpc,           \* "ready" before the call, "returned" after it
    detections,    \* the caller's list, as passed
    iou_threshold, \* argument iou_threshold, a fraction <<p, q>>
    call,          \* the callee's view after the call: argument list and result
    \* ---- calls of calculate_iou on two boxes, in both argument orders ----
    ipc,           \* "ready" before the calls, "returned" after them
    bbox_a,        \* one box
    bbox_b,        \* the other box
    iou_ab,        \* calculate_iou(bbox_a, bbox_b)
    iou_ba         \* calculate_iou(bbox_b, bbox_a)

pvars == <<detector, stats, pc, exc, cap, out, display, total_frames,
           frame_count, annotated, sink, recorded, runs, ret, key, polls>>
fvars == <<fpc, detections, iou_threshold, call>>
gvars == <<ipc, bbox_a, bbox_b, iou_ab, iou_ba>>
vars == <<detector, stats, pc, exc, cap, out, display, total_frames,
          frame_count, annotated, sink, recorded, runs, ret, key, polls,
          fpc, detections, iou_threshold, call,
          ipc, bbox_a, bbox_b, iou_ab, iou_ba>>

----------------------------------------------------------------------------
(* Bounds of the model *)

MaxDets == 3        \* longest list handed to filter_detections_by_iou
MaxFrames == 30     \* most frames a source yields in one call
MaxRuns == 2        \* process_video calls on one VideoProcessor
MaxCoord == 3       \* largest box coordinate handed to calculate_iou alone

(* Program constants *)

ProgressInterval == 30    \* frame_count % 30
NMS_IOU_THRESHOLD == <<1, 2>>   \* config.NMS_IOU_THRESHOLD = 0.5 / default 0.5

----------------------------------------------------------------------------
(* Values *)

Max(a, b) == IF a >= b THEN a ELSE b
Min(a, b) == IF a <= b THEN a ELSE b

\* Well-formed integer boxes (x1, y1, x2, y2), one of them degenerate.
\*   IoU(B1,B2) = 2/4 (exactly 1/2)   IoU(B1,B3) = 4/6   IoU(B2,B3) = 2/6
\*   IoU(B1,B4) = 1/7                 IoU(B3,B4) = 2/8 (exactly 1/4)
B1 == <<0, 0, 2, 2>>
B2 == <<0, 0, 2, 1>>
B3 == <<0, 0, 3, 2>>
B4 == <<1, 1, 3, 3>>
B5 == <<4, 4, 5, 5>>
B6 == <<1, 1, 1, 1>>
Boxes == {B1, B2, B3, B4, B5, B6}
Confidences == {7, 9}
Thresholds == {<<1, 2>>, <<1, 4>>}

Det(b, c) == <<b[1], b[2], b[3], b[4], c, "person">>
Detections == {Det(b, c) : b \in Boxes, c \in Confidences}

SeqsUpTo(S, n) == UNION {[1..k -> S] : k \in 0..n}

\* a > b for fractions a = <<n, d>>, b = <<p, q>> with nonzero denominators
FracGt(a, b) ==
    IF (a[2] > 0) = (b[2] > 0)
    THEN a[1] * b[2] > b[1] * a[2]
    ELSE a[1] * b[2] < b[1] * a[2]

FracEq(a, b) == a[1] * b[2] = b[1] * a[2]

----------------------------------------------------------------------------
(* src/src/utils.py *)

\* The union taken from the first box's area twice.
calculate_iou_first_area_twice(bbox1, bbox2) ==
    LET inter_width == Max(0, Min(bbox1[3], bbox2[3]) - Max(bbox1[1], bbox2[1]))
        inter_height == Max(0, Min(bbox1[4], bbox2[4]) - Max(bbox1[2], bbox2[2]))
        inter_area == inter_width * inter_height
        bbox1_area == (bbox1[3] - bbox1[1]) * (bbox1[4] - bbox1[2])
        union_area == bbox1_area + bbox1_area - inter_area
    IN  IF union_area = 0 THEN <<0, 1>> ELSE <<inter_area, union_area>>

calculate_iou(bbox1, bbox2) ==
    LET x1_min == bbox1[1]
        y1_min == bbox1[2]
        x1_max == bbox1[3]
        y1_max == bbox1[4]
        x2_min == bbox2[1]
        y2_min == bbox2[2]
        x2_max == bbox2[3]
        y2_max == bbox2[4]
        inter_x_min == Max(x1_min, x2_min)
        inter_y_min == Max(y1_min, y2_min)
        inter_x_max == Min(x1_max, x2_max)
        inter_y_max == Min(y1_max, y2_max)
        inter_width == Max(0, inter_x_max - inter_x_min)
        inter_height == Max(0, inter_y_max - inter_y_min)
        inter_area == inter_width * inter_height
        bbox1_area == (x1_max - x1_min) * (y1_max - y1_min)
        bbox2_area == (x2_max - x2_min) * (y2_max - y2_min)
        union_area == bbox1_area + bbox2_area - inter_area
    IN  IF union_area = 0 THEN <<0, 1>> ELSE <<inter_area, union_area>>

bbox(detection) == <<detection[1], detection[2], detection[3], detection[4]>>
confidence(detection) == detection[5]

Reverse(s) == [i \in 1..Len(s) |-> s[Len(s) + 1 - i]]

\* Insert d into the ascending list s behind every element whose key is not
\* larger: the step of a stable ascending sort.
InsertAscending(s, d) ==
    LET n == Cardinality({i \in 1..Len(s) : confidence(s[i]) <= confidence(d)})
    IN  SubSeq(s, 1, n) \o <<d>> \o SubSeq(s, n + 1, Len(s))

RECURSIVE StableSortAscending(_)
StableSortAscending(s) ==
    IF s = <<>> THEN <<>>
    ELSE InsertAscending(StableSortAscending(SubSeq(s, 1, Len(s) - 1)), s[Len(s)])

\* A sort that is ascending-then-reversed: equal keys come out in reverse
\* input order.
sorted_ties_reversed(dets) == Reverse(StableSortAscending(dets))

\* sorted(detections, key=lambda x: x[4], reverse=True): a new list; CPython
\* reverses the list, sorts it stably ascending and reverses it again, so
\* equal keys keep their original order.
sorted_detections(dets) == Reverse(StableSortAscending(Reverse(dets)))

\* The comparison written iou >= iou_threshold: the boundary is suppressed.
should_keep_at_boundary_drops(detection, filtered, thr) ==
    \A k \in 1..Len(filtered) :
        FracGt(thr, calculate_iou(bbox(detection), bbox(filtered[k])))

\* the inner loop over filtered: should_keep stays True unless some kept
\* detection has iou > iou_threshold
should_keep(detection, filtered, thr) ==
    \A k \in 1..Len(filtered) :
        ~ FracGt(calculate_iou(bbox(detection), bbox(filtered[k])), thr)

RECURSIVE FilterLoop(_, _, _, _)
FilterLoop(sorted, i, filtered, thr) ==
    IF i > Len(sorted) THEN filtered
    ELSE FilterLoop(sorted, i + 1,
                    IF should_keep(sorted[i], filtered, thr)
                    THEN Append(filtered, sorted[i])
                    ELSE filtered,
                    thr)

\* The call: `detections` is the argument list as the call leaves it,
\* `result` the returned list.
filter_detections_by_iou(dets, thr) ==
    IF dets = <<>>
    THEN [detections |-> dets, result |-> <<>>]
    ELSE [detections |-> dets,
          result |-> FilterLoop(sorted_detections(dets), 1, <<>>, thr)]


----------------------------------------------------------------------------
(* The detector: an external collaborator.  A VideoProcessor is built with  *)
(* one of two stub detectors: "single" returns one fixed detection per      *)
(* frame; "varying" returns nothing on even frames and two overlapping      *)
(* boxes (IoU 4/6), the weaker one first, on odd frames.  detect(frame) may *)
(* also raise.                                                              *)

Detectors == {"single", "varying"}

\* PedestrianDetector.detect on the frame with index `frame` (from 0)
detect(kind, frame) ==
    CASE kind = "single" -> <<Det(B1, 9)>>
      [] kind = "varying" ->
            IF frame % 2 = 0 THEN <<>> ELSE <<Det(B1, 7), Det(B3, 9)>>

----------------------------------------------------------------------------
(* src/src/video_processor.py *)

\* VideoProcessor.__init__: self.stats
InitStats ==
    [total_frames |-> 0, total_detections |-> 0,
     total_confidence |-> 0, processing_time |-> 0]

\* _draw_detections: one rectangle and one label (class name, confidence)
\* per detection, in list order, on a copy of the frame
_draw_detections(dets) ==
    [i \in 1..Len(dets) |->
        [rect |-> bbox(dets[i]), label |-> <<dets[i][6], dets[i][5]>>]]

RECURSIVE SumConfidence(_)
SumConfidence(dets) ==
    IF dets = <<>> THEN 0
    ELSE confidence(dets[1]) + SumConfidence(Tail(dets))

_update_stats(s, dets) ==
    [s EXCEPT !.total_detections = @ + Len(dets),
              !.total_confidence = @ + SumConfidence(dets)]

NoCall == [status |-> "nocall"]

\* get_statistics: the dict it returns, or the exception the unguarded
\* division total_frames / processing_time raises
get_statistics(s) ==
    IF s.total_frames = 0
    THEN [status |-> "returned", value |-> s]
    ELSE IF s.processing_time = 0
    THEN [status |-> "raised", error |-> "ZeroDivisionError"]
    ELSE [status |-> "returned",
          value |-> [total_frames |-> s.total_frames,
                     avg_detections |-> <<s.total_detections, s.total_frames>>,
                     avg_confidence |->
                         IF s.total_detections > 0
                         THEN <<s.total_confidence, s.total_detections>>
                         ELSE <<0, 1>>,
                     fps |-> <<s.total_frames, s.processing_time>>]]

\* lines 121-124: the statistics after the loop
finalized(s, count, elapsed) ==
    [s EXCEPT !.processing_time = elapsed, !.total_frames = count]

\* what CAP_PROP_FRAME_COUNT reports: nothing, or some count
ClaimedTotals == {0, ProgressInterval}

\* time.time() - start_time, in clock ticks: the clock may not have advanced
ElapsedTimes == {0, 2}

Init ==
    /\ detector \in Detectors
    /\ stats = InitStats
    /\ pc = "idle"
    /\ exc = "none"
    /\ cap = "none"
    /\ out = "none"
    /\ display = FALSE
    /\ total_frames = 0
    /\ frame_count = 0
    /\ annotated = <<>>
    /\ sink = 0
    /\ recorded = 0
    /\ runs = 0
    /\ ret = NoCall
    /\ key = "unpolled"
    /\ polls = 0
    /\ fpc = "ready"
    /\ detections = <<>>
    /\ iou_threshold = NMS_IOU_THRESHOLD
    /\ call = NoCall
    /\ ipc = "ready"
    /\ bbox_a = B1
    /\ bbox_b = B1
    /\ iou_ab = NoCall
    /\ iou_ba = NoCall

CanStart == pc \in {"idle", "closed", "failed"} /\ runs < MaxRuns

\* process_video, lines 56-59: the source cannot be opened
OpenSourceFails ==
    /\ CanStart
    /\ display' = FALSE      \* the argument is not read on this path
    /\ pc' = "failed"
    /\ exc' = "ValueError"
    /\ cap' = "none"
    /\ out' = "none"
    /\ total_frames' = 0
    /\ frame_count' = 0
    /\ annotated' = <<>>
    /\ sink' = 0
    /\ recorded' = 0
    /\ runs' = runs + 1
    /\ ret' = NoCall
    /\ key' = "unpolled"
    /\ polls' = 0
    /\ UNCHANGED <<detector, stats>>
    /\ UNCHANGED fvars
    /\ UNCHANGED gvars

\* process_video, lines 56-68: the source opens, mkdir raises
OpenSinkDirFails ==
    /\ CanStart
    /\ display' = FALSE      \* the argument is not read on this path
    /\ \E t \in ClaimedTotals : total_frames' = t
    /\ pc' = "failed"
    /\ exc' = "OSError"
    /\ cap' = "open"
    /\ out' = "none"
    /\ frame_count' = 0
    /\ annotated' = <<>>
    /\ sink' = 0
    /\ recorded' = 0
    /\ runs' = runs + 1
    /\ ret' = NoCall
    /\ key' = "unpolled"
    /\ polls' = 0
    /\ UNCHANGED <<detector, stats>>
    /\ UNCHANGED fvars
    /\ UNCHANGED gvars

\* process_video, lines 56-85: source and writer are constructed; the
\* writer may have failed to open its file (isOpened is never asked)
OpenVideo ==
    /\ CanStart
    /\ \E d \in BOOLEAN : display' = d
    /\ \E t \in ClaimedTotals : total_frames' = t
    /\ \E w \in {"open", "unopened"} : out' = w
    /\ pc' = "running"
    /\ exc' = "none"
    /\ cap' = "open"
    /\ frame_count' = 0
    /\ annotated' = <<>>
    /\ sink' = 0
    /\ recorded' = 0
    /\ runs' = runs + 1
    /\ ret' = NoCall
    /\ key' = "unpolled"
    /\ polls' = 0
    /\ UNCHANGED <<detector, stats>>
    /\ UNCHANGED fvars
    /\ UNCHANGED gvars

\* lines 121-130 after the loop
Finish(s, elapsed) ==
    /\ stats' = finalized(s, frame_count', elapsed)
    /\ cap' = "released"
    /\ out' = IF out = "open" THEN "released" ELSE out
    /\ pc' = "closed"
    /\ exc' = "none"

Keys == {"q", "other"}

\* The abort honoured whether or not the preview is shown.
abort_requested_without_display(shown, k) == k = "q"

\* lines 115-119: with the preview shown, the key polled is 'q'
abort_requested(shown, k) == shown /\ k = "q"

\* one iteration of the loop, lines 89-119, on a frame that was read
ProcessFrame ==
    /\ pc = "running"
    /\ frame_count < MaxFrames
    /\ LET dets == detect(detector, frame_count)
           updated == _update_stats(stats, dets)
       IN  /\ annotated' = _draw_detections(dets)
           /\ sink' = IF out = "open" THEN sink + 1 ELSE sink
           /\ recorded' = recorded + Len(dets)
           /\ frame_count' = frame_count + 1
           /\ IF frame_count' % ProgressInterval = 0 /\ total_frames = 0
              THEN \* frame_count / total_frames raises
                   /\ pc' = "failed"
                   /\ exc' = "ZeroDivisionError"
                   /\ stats' = updated
                   /\ UNCHANGED <<cap, out, key, polls>>
              ELSE \E k \in Keys :
                     /\ IF display
                        THEN key' = k /\ polls' = polls + 1
                        ELSE UNCHANGED <<key, polls>>
                     /\ IF abort_requested(display, k)
                        THEN \E elapsed \in ElapsedTimes : Finish(updated, elapsed)
                        ELSE /\ stats' = updated
                             /\ UNCHANGED <<pc, exc, cap, out>>
    /\ ret' = NoCall
    /\ UNCHANGED <<detector, display, total_frames, runs>>
    /\ UNCHANGED fvars
    /\ UNCHANGED gvars

\* line 96: detector.detect raises; nothing catches it
DetectRaises ==
    /\ pc = "running"
    /\ frame_count < MaxFrames
    /\ pc' = "failed"
    /\ exc' = "DetectorError"
    /\ ret' = NoCall
    /\ UNCHANGED <<detector, stats, cap, out, display, total_frames,
                   frame_count, annotated, sink, recorded, runs, key, polls>>
    /\ UNCHANGED fvars
    /\ UNCHANGED gvars

\* lines 89-93 and 121-130: cap.read() fails, the loop ends
EndOfStream ==
    /\ pc = "running"
    /\ UNCHANGED frame_count
    /\ \E elapsed \in ElapsedTimes : Finish(stats, elapsed)
    /\ ret' = NoCall
    /\ UNCHANGED <<detector, display, total_frames, annotated, sink,
                   recorded, runs, key, polls>>
    /\ UNCHANGED fvars
    /\ UNCHANGED gvars

\* get_statistics, callable at any time
GetStatistics ==
    /\ ret' = get_statistics(stats)
    /\ UNCHANGED <<detector, stats, pc, exc, cap, out, display, total_frames,
                   frame_count, annotated, sink, recorded, runs, key, polls>>
    /\ UNCHANGED fvars
    /\ UNCHANGED gvars

Next ==
    \/ OpenSourceFails
    \/ OpenSinkDirFails
    \/ OpenVideo
    \/ ProcessFrame
    \/ DetectRaises
    \/ EndOfStream
    \/ GetStatistics

Spec == Init /\ [][Next]_vars

----------------------------------------------------------------------------
(* Calls of filter_detections_by_iou on every list of up to MaxDets        *)
(* detections                                                              *)

FilterInit ==
    /\ detector = "single"
    /\ stats = InitStats
    /\ pc = "idle"
    /\ exc = "none"
    /\ cap = "none"
    /\ out = "none"
    /\ display = FALSE
    /\ total_frames = 0
    /\ frame_count = 0
    /\ annotated = <<>>
    /\ sink = 0
    /\ recorded = 0
    /\ runs = 0
    /\ ret = NoCall
    /\ key = "unpolled"
    /\ polls = 0
    /\ fpc = "ready"
    /\ detections \in SeqsUpTo(Detections, MaxDets)
    /\ iou_threshold \in Thresholds
    /\ call = NoCall
    /\ ipc = "ready"
    /\ bbox_a = B1
    /\ bbox_b = B1
    /\ iou_ab = NoCall
    /\ iou_ba = NoCall

CallFilter ==
    /\ fpc = "ready"
    /\ fpc' = "returned"
    /\ call' = filter_detections_by_iou(detections, iou_threshold)
    /\ UNCHANGED <<detections, iou_threshold>>
    /\ UNCHANGED pvars
    /\ UNCHANGED gvars

FilterNext == CallFilter

SpecFilter == FilterInit /\ [][FilterNext]_vars

----------------------------------------------------------------------------
(* Calls of calculate_iou on every pair of well-formed boxes with          *)
(* coordinates in 0..MaxCoord                                              *)

WellFormedBoxes ==
    {b \in (0..MaxCoord) \X (0..MaxCoord) \X (0..MaxCoord) \X (0..MaxCoord) :
        b[1] <= b[3] /\ b[2] <= b[4]}

IoUInit ==
    /\ detector = "single"
    /\ stats = InitStats
    /\ pc = "idle"
    /\ exc = "none"
    /\ cap = "none"
    /\ out = "none"
    /\ display = FALSE
    /\ total_frames = 0
    /\ frame_count = 0
    /\ annotated = <<>>
    /\ sink = 0
    /\ recorded = 0
    /\ runs = 0
    /\ ret = NoCall
    /\ key = "unpolled"
    /\ polls = 0
    /\ fpc = "ready"
    /\ detections = <<>>
    /\ iou_threshold = NMS_IOU_THRESHOLD
    /\ call = NoCall
    /\ ipc = "ready"
    /\ bbox_a \in WellFormedBoxes
    /\ bbox_b \in WellFormedBoxes
    /\ iou_ab = NoCall
    /\ iou_ba = NoCall

CallIoU ==
    /\ ipc = "ready"
    /\ ipc' = "returned"
    /\ iou_ab' = calculate_iou(bbox_a, bbox_b)
    /\ iou_ba' = calculate_iou(bbox_b, bbox_a)
    /\ UNCHANGED <<bbox_a, bbox_b>>
    /\ UNCHANGED pvars
    /\ UNCHANGED fvars

IoUNext == CallIoU

SpecIoU == IoUInit /\ [][IoUNext]_vars

----------------------------------------------------------------------------
(* Claims about VideoProcessor, checked under Spec *)

IoU(d1, d2) == calculate_iou(bbox(d1), bbox(d2))

Deduplicated(kind, frame) ==
    filter_detections_by_iou(detect(kind, frame), NMS_IOU_THRESHOLD).result

RECURSIVE DeduplicatedCount(_, _)
DeduplicatedCount(kind, n) ==
    IF n = 0 THEN 0
    ELSE DeduplicatedCount(kind, n - 1) + Len(Deduplicated(kind, n - 1))

\* C1: for every frame read, what is drawn on the frame and what is added
\* to the statistics is the detector's result after
\* filter_detections_by_iou with the configured threshold, never the raw
\* detector output.
C1_DrawnAreDeduplicated ==
    frame_count >= 1 =>
        /\ annotated = _draw_detections(Deduplicated(detector, frame_count - 1))
        /\ recorded = DeduplicatedCount(detector, frame_count)

\* C2: whenever process_video has returned or raised, no video source or
\* sink handle that was acquired is still open.
C2_HandlesReleased ==
    pc \in {"closed", "failed"} => (cap # "open" /\ out # "open")

SnapshotKeys == {"total_frames", "avg_detections", "avg_confidence", "fps"}

ZeroFramesRecorded ==
    /\ pc \in {"idle", "closed"}
    /\ frame_count = 0
    /\ runs <= 1

\* C3: get_statistics with zero frames recorded (fresh processor, or after
\* a run over an empty source) returns, without raising, a snapshot with
\* total_frames = 0, avg_detections = 0, avg_confidence = 0 and an fps.
C3_EmptySnapshot ==
    (ZeroFramesRecorded /\ ret.status # "nocall") =>
        /\ ret.status = "returned"
        /\ SnapshotKeys \subseteq DOMAIN ret.value
        /\ ret.value.total_frames = 0
        /\ FracEq(ret.value.avg_detections, <<0, 1>>)
        /\ FracEq(ret.value.avg_confidence, <<0, 1>>)

\* C4: get_statistics never propagates a division-by-zero fault, whatever
\* the statistics (also total_frames > 0 with processing_time = 0).
C4_DivisionsGuarded == ret.status # "raised"

\* C5: the claimed total-frame count, zero included, never makes
\* process_video fail or stop early: no run ends in the division by the
\* claimed total.
C5_ClaimedTotalNeverFails ==
    ~ (pc = "failed" /\ exc = "ZeroDivisionError")

\* C6: get_statistics after k >= 1 frames of a running loop returns a
\* partial snapshot, in the snapshot shape, whose total_frames is k.
C6_PartialSnapshot ==
    (pc = "running" /\ frame_count >= 1 /\ ret.status # "nocall") =>
        /\ ret.status = "returned"
        /\ SnapshotKeys \subseteq DOMAIN ret.value
        /\ ret.value.total_frames = frame_count

\* C7: if the source cannot be opened process_video raises before the sink
\* is created and before any frame is read; if the sink cannot be opened
\* for writing process_video fails instead of entering the frame loop.
C7_OpenFailsDistinctly ==
    /\ (pc = "failed" /\ exc = "ValueError") =>
            (out = "none" /\ frame_count = 0 /\ sink = 0)
    /\ out = "unopened" => pc = "failed"

\* C8: after a first run on a fresh processor, sink opened, no abort (no
\* preview) and no error, over N frames: the sink holds N frames, the final
\* snapshot has total_frames = N and avg_detections = (recorded detections)
\* / N, which is 1.0 for the one-detection-per-frame stub.
C8_FullRun ==
    ( /\ runs = 1
      /\ pc = "closed"
      /\ out = "released"
      /\ ~ display
      /\ ret.status # "nocall" ) =>
        /\ sink = frame_count
        /\ ret.status = "returned"
        /\ ret.value.total_frames = frame_count
        /\ frame_count > 0 =>
              /\ FracEq(ret.value.avg_detections, <<recorded, frame_count>>)
              /\ detector = "single" =>
                    FracEq(ret.value.avg_detections, <<1, 1>>)

\* C11: the statistics counters (frames processed, total detections,
\* confidence sum) are zero at construction and no operation on the
\* instance, a second process_video call included, ever lowers one of them.
C11_CountersNeverLowered ==
    /\ stats = InitStats
    /\ [][ /\ stats'.total_frames >= stats.total_frames
           /\ stats'.total_detections >= stats.total_detections
           /\ stats'.total_confidence >= stats.total_confidence ]_vars

\* what holds of a call in every state as far as the abort goes
C12_AbortState ==
    /\ ~ display => (key = "unpolled" /\ polls = 0)
    /\ polls <= frame_count
    /\ key = "q" =>
          /\ pc = "closed"
          /\ cap = "released"
          /\ out # "open"
          /\ polls = frame_count
          /\ stats.total_frames = frame_count

\* what holds of every step as far as the abort goes
C12_AbortStep ==
    LET dets == detect(detector, frame_count)
    IN  \* a poll comes after the frame was written and recorded
        /\ polls' = polls + 1 =>
              /\ frame_count' = frame_count + 1
              /\ out = "open" => sink' = sink + 1
              /\ recorded' = recorded + Len(dets)
        \* with the preview, an iteration that gets through polls once
        /\ (display /\ pc = "running" /\ frame_count' = frame_count + 1
              /\ pc' # "failed") => polls' = polls + 1
        \* the abort ends the run there, the frame counted, time finalized
        /\ (pc = "running" /\ key' = "q") =>
              /\ pc' = "closed"
              /\ stats'.total_frames = frame_count + 1
              /\ stats'.total_detections = stats.total_detections + Len(dets)
              /\ stats'.total_confidence =
                    stats.total_confidence + SumConfidence(dets)
              /\ stats'.processing_time \in ElapsedTimes
              /\ cap' = "released"
              /\ out' # "open"
        \* after the abort no further frame of this call is read
        /\ (key = "q" /\ runs' = runs) => frame_count' = frame_count
        \* an iteration ends the run only on a polled 'q', so never
        \* without the preview
        /\ (pc = "running" /\ pc' = "closed" /\ frame_count' # frame_count) =>
              (display /\ key' = "q")

\* C12: with the preview enabled the abort is polled once per iteration,
\* after the frame was written and recorded; an abort stops the loop at
\* that iteration (no further frame is read), the frames processed stay
\* counted, elapsed time is finalized and both handles are released.  With
\* the preview disabled the abort is never polled and cannot stop the run.
C12_CooperativeAbort == [] C12_AbortState /\ [][C12_AbortStep]_vars

\* A run with the preview, aborted at its second frame, both frames written.
C12_Witness ==
    /\ key = "q"
    /\ display
    /\ pc = "closed"
    /\ frame_count = 2
    /\ sink = 2
    /\ polls = 2

----------------------------------------------------------------------------
(* Claims about filter_detections_by_iou, checked under SpecFilter *)

\* the elements of s at the positions in K, in order
Pick(s, K) ==
    LET F[i \in 0..Len(s)] ==
            IF i = 0 THEN <<>>
            ELSE IF i \in K THEN Append(F[i - 1], s[i]) ELSE F[i - 1]
    IN  F[Len(s)]

\* C9: taking the candidates in confidence-descending order, a candidate is
\* accepted iff its IoU with every already accepted detection is <=
\* iou_threshold (equal is kept, greater is suppressed); so every pair of
\* the output has IoU <= iou_threshold, every suppressed detection has
\* IoU > iou_threshold with a kept detection of at least its confidence,
\* and an empty input gives an empty output.
C9_GreedySuppression ==
    fpc = "returned" =>
        LET S == sorted_detections(detections)
            R == call.result
            thr == iou_threshold
        IN  /\ \E K \in SUBSET (1..Len(S)) :
                  /\ R = Pick(S, K)
                  /\ \A i \in 1..Len(S) :
                        (i \in K) <=>
                            (\A j \in K : j < i => ~ FracGt(IoU(S[i], S[j]), thr))
                  /\ \A i \in (1..Len(S)) \ K :
                        \E j \in K :
                            /\ FracGt(IoU(S[i], S[j]), thr)
                            /\ confidence(S[j]) >= confidence(S[i])
            /\ \A a, b \in 1..Len(R) :
                  a # b => ~ FracGt(IoU(R[a], R[b]), thr)
            /\ detections = <<>> => R = <<>>

\* A call that kept a pair whose IoU equals the threshold and suppressed
\* another candidate.
C9_Witness ==
    /\ fpc = "returned"
    /\ Len(detections) = 3
    /\ Len(call.result) = 2
    /\ FracEq(IoU(call.result[1], call.result[2]), iou_threshold)

\* C10: the output is ordered by confidence descending, detections of equal
\* confidence keep their input order; when all pairwise IoUs are below the
\* threshold every input detection survives, in that order, with its
\* fields unchanged; the input list is not mutated.
C10_OrderedStable ==
    fpc = "returned" =>
        LET D == detections
            R == call.result
        IN  /\ call.detections = D
            /\ \E f \in [1..Len(R) -> 1..Len(D)] :
                  /\ \A k \in 1..Len(R) : R[k] = D[f[k]]
                  /\ \A k, l \in 1..Len(R) :
                        k < l =>
                          \/ confidence(R[k]) > confidence(R[l])
                          \/ /\ confidence(R[k]) = confidence(R[l])
                             /\ f[k] < f[l]
            /\ (\A i, j \in 1..Len(D) :
                    i # j => FracGt(iou_threshold, IoU(D[i], D[j])))
                  => Len(R) = Len(D)

\* A call on three detections, all surviving, that had to be reordered and
\* holds two different detections of equal confidence.
C10_Witness ==
    /\ fpc = "returned"
    /\ Len(detections) = 3
    /\ Len(call.result) = 3
    /\ call.result # detections
    /\ \E k \in 1..2 :
          /\ confidence(call.result[k]) = confidence(call.result[k + 1])
          /\ call.result[k] # call.result[k + 1]

----------------------------------------------------------------------------
(* Claims about calculate_iou, checked under SpecIoU *)

\* the unit cells of the plane a box covers
Cells(b) == {<<x, y>> : x \in b[1]..(b[3] - 1), y \in b[2]..(b[4] - 1)}

\* C13: calculate_iou(a, b) = calculate_iou(b, a) for well-formed integer
\* boxes; it returns 0.0, without dividing, when the union area is 0; it
\* returns 0.0 for boxes that do not overlap; calculate_iou(a, a) = 1.0 for
\* a non-degenerate a.
C13_IoUSymmetricGuarded ==
    ipc = "returned" =>
        /\ iou_ab = iou_ba
        /\ Cells(bbox_a) \cup Cells(bbox_b) = {} => iou_ab = <<0, 1>>
        /\ iou_ab[2] # 0
        /\ Cells(bbox_a) \cap Cells(bbox_b) = {} => FracEq(iou_ab, <<0, 1>>)
        /\ (bbox_a = bbox_b /\ Cells(bbox_a) # {}) => FracEq(iou_ab, <<1, 1>>)

\* Two boxes of different area that overlap in part.
C13_Witness ==
    /\ ipc = "returned"
    /\ Cardinality(Cells(bbox_a)) # Cardinality(Cells(bbox_b))
    /\ Cells(bbox_a) \cap Cells(bbox_b) # {}
    /\ ~ (Cells(bbox_a) \subseteq Cells(bbox_b))
    /\ ~ (Cells(bbox_b) \subseteq Cells(bbox_a))
    /\ iou_ab[1] > 0

============================================================================
